---- MODULE Spec2Model ----
(***************************************************************************)
(* A model of src/src/mrb_require.c: the require/load facility of an      *)
(* embedded mruby interpreter (path resolution, load-state bookkeeping,   *)
(* extension dispatch and the three loaders).                             *)
(*                                                                        *)
(* C strings are modelled as sequences of atoms.  The characters the code *)
(* searches for ('/', '\', '.', '-') are atoms of their own; every other  *)
(* atom stands for a run of ordinary characters.  All string operations   *)
(* of the code (strchr, strrchr, strcmp, concatenation) are computed on   *)
(* that representation.                                                   *)
(***************************************************************************)
EXTENDS Integers, Sequences, FiniteSets, TLC

\* ------------------------------------------------------------------ bounds
\* load is called only while fewer than MaxDepth loads are in progress (a file
\* may load itself without end); require needs no bound
MaxDepth == 2

\* ------------------------------------------------------------ C strings
SLASH  == "/"
BSLASH == "\\"
DOT    == "."
DASH   == "-"

\* the value of a C pointer that is NULL / an mruby nil
NULL == <<"<null>">>

\* strchr(s, c): index of the first c in s, 0 when there is none
strchr(s, c) ==
  IF \E i \in 1..Len(s) : s[i] = c
  THEN CHOOSE i \in 1..Len(s) : s[i] = c /\ \A k \in 1..(i-1) : s[k] # c
  ELSE 0

\* strrchr(s, c): index of the last c in s, 0 when there is none
strrchr(s, c) ==
  IF \E i \in 1..Len(s) : s[i] = c
  THEN CHOOSE i \in 1..Len(s) : s[i] = c /\ \A k \in (i+1)..Len(s) : s[k] # c
  ELSE 0

\* the suffix of s that starts at index i (the C pointer s + i - 1)
StrFrom(s, i) == SubSeq(s, i, Len(s))

\* the text from the last c of s on (the C string strrchr returns), NULL if none
strrchr_str(s, c) == IF strrchr(s, c) = 0 THEN NULL ELSE StrFrom(s, strrchr(s, c))

\* file_basename: skip past every '/', and where no '/' is left past every '\'
RECURSIVE file_basename(_)
file_basename(fname) ==
  IF strchr(fname, SLASH) # 0
  THEN file_basename(StrFrom(fname, strchr(fname, SLASH) + 1))
  ELSE IF strchr(fname, BSLASH) # 0
       THEN file_basename(StrFrom(fname, strchr(fname, BSLASH) + 1))
       ELSE fname

\* ---------------------------------------------------------- file system
\* The process's working directory.
Cwd == <<"/", "w">>

\* the '/'-separated components of a path
RECURSIVE Split(_)
Split(s) ==
  IF strchr(s, SLASH) = 0 THEN <<s>>
  ELSE <<SubSeq(s, 1, strchr(s, SLASH) - 1)>> \o Split(StrFrom(s, strchr(s, SLASH) + 1))

\* the absolute path made of the components cs
RECURSIVE Join(_)
Join(cs) == IF cs = <<>> THEN <<>> ELSE <<SLASH>> \o Head(cs) \o Join(Tail(cs))

\* cs names an existing directory of the file system whose regular files are `files`
IsDir(files, cs) ==
  \/ cs = <<>>
  \/ \E f \in files : /\ Len(f) > Len(Join(cs))
                      /\ SubSeq(f, 1, Len(Join(cs)) + 1) = Join(cs) \o <<SLASH>>

\* The kernel's walk along the components `rest` starting from directory `cur`:
\* empty and "." components stay, ".." goes up, a name goes down.
\* The result is the component list reached, or <<NULL>> when a step fails.
RECURSIVE Walk(_, _, _)
Walk(files, cur, rest) ==
  IF rest = <<>> THEN cur
  ELSE IF ~IsDir(files, cur) THEN <<NULL>>
  ELSE IF Head(rest) = <<>> \/ Head(rest) = <<DOT>> THEN Walk(files, cur, Tail(rest))
  ELSE IF Head(rest) = <<DOT, DOT>>
       THEN Walk(files, IF cur = <<>> THEN cur ELSE SubSeq(cur, 1, Len(cur) - 1), Tail(rest))
  ELSE Walk(files, Append(cur, Head(rest)), Tail(rest))

\* realpath(3): the canonical absolute path of an existing file, NULL on failure
realpath(files, path) ==
  LET abs == IF path # <<>> /\ Head(path) = SLASH THEN path ELSE Cwd \o <<SLASH>> \o path
      cs  == Walk(files, <<>>, Split(abs))
  IN IF path = <<>> \/ cs = <<NULL>> \/ Join(cs) \notin files THEN NULL ELSE Join(cs)

\* fopen(path, "r") succeeds: the path leads to an existing regular file
fopen(files, path) == realpath(files, path) # NULL

\* ------------------------------------------------------- mruby values
\* an exception object: its class and its message; NoExc is mrb->exc == NULL
NoExc == [cls |-> "none", msg |-> <<>>]
Exc(c, m) == [cls |-> c, msg |-> m]

\* E_LOAD_ERROR is the class ScriptError
E_LOAD_ERROR    == "ScriptError"
E_RUNTIME_ERROR == "RuntimeError"
E_TYPE_ERROR    == "TypeError"

\* an mruby value as far as the code looks at it: its type, its string, its array
StrVal(s) == [type |-> "String", str |-> s, ary |-> <<>>]
AryVal(a) == [type |-> "Array", str |-> <<>>, ary |-> a]
NilVal    == [type |-> "nil", str |-> <<>>, ary |-> <<>>]
FixVal    == [type |-> "Fixnum", str |-> <<>>, ary |-> <<>>]

\* mrb_check_array_type: the array itself, nil for every other value
mrb_check_array_type(v) == IF v.type = "Array" THEN v ELSE NilVal

\* the elements of a sequence
Range(s) == { s[i] : i \in 1..Len(s) }

\* ------------------------------------------------------------ find_file
\* find_file_check: path "/" fname ext, canonicalized by realpath and opened
\* for reading; the canonical path, or NULL (nil) when either step fails
find_file_check(files, mrb_path, mrb_fname, ext) ==
  LET mrb_filepath == mrb_path \o <<SLASH>> \o mrb_fname \o (IF ext = NULL THEN <<>> ELSE ext)
      fpath        == realpath(files, mrb_filepath)
  IN IF fpath = NULL THEN NULL
     ELSE IF ~fopen(files, fpath) THEN NULL
     ELSE fpath

\* the extensions find_file tries: .rb, .mrb, .so for a base name without '.',
\* the single entry nil (nothing appended) otherwise
find_file_exts(fname) ==
  IF strrchr_str(file_basename(fname), DOT) = NULL
  THEN << <<DOT, "rb">>, <<DOT, "mrb">>, <<DOT, "so">> >>
  ELSE << NULL >>

\* find_file_loop with the loops exchanged: extensions outside, directories inside
RECURSIVE find_file_loop_ext_major(_, _, _, _, _, _)
find_file_loop_ext_major(files, load_path, exts, mrb_filename, i, j) ==
  IF j > Len(exts) THEN NULL
  ELSE IF i > Len(load_path)
  THEN find_file_loop_ext_major(files, load_path, exts, mrb_filename, 1, j + 1)
  ELSE IF find_file_check(files, load_path[i], mrb_filename, exts[j]) # NULL
       THEN find_file_check(files, load_path[i], mrb_filename, exts[j])
       ELSE find_file_loop_ext_major(files, load_path, exts, mrb_filename, i + 1, j)

\* the two nested for loops of find_file, from (i, j) on:
\* the first candidate that find_file_check accepts, NULL when none is left
RECURSIVE find_file_loop(_, _, _, _, _, _)
find_file_loop(files, load_path, exts, mrb_filename, i, j) ==
  IF i > Len(load_path) THEN NULL
  ELSE IF j > Len(exts) THEN find_file_loop(files, load_path, exts, mrb_filename, i + 1, 1)
  ELSE IF find_file_check(files, load_path[i], mrb_filename, exts[j]) # NULL
       THEN find_file_check(files, load_path[i], mrb_filename, exts[j])
       ELSE find_file_loop(files, load_path, exts, mrb_filename, i, j + 1)

\* find_file_load_path that puts "." in front of the directories of $: instead
\* of replacing them
find_file_load_path_pushing(gv, fname) ==
  IF fname # <<>> /\ Head(fname) = DOT
  THEN << <<DOT>> >> \o mrb_check_array_type(gv).ary
  ELSE mrb_check_array_type(gv).ary

\* the directories find_file searches for fname: ["."] for a name that starts
\* with '.', the array held by $: otherwise
find_file_load_path(gv, fname) ==
  IF fname # <<>> /\ Head(fname) = DOT THEN << <<DOT>> >> ELSE mrb_check_array_type(gv).ary

\* the ScriptError find_file raises at not_found
not_found(mrb_filename) == Exc(E_LOAD_ERROR, <<"cannot load such file -- ">> \o mrb_filename)

\* find_file that canonicalizes an absolute name as it does every other name
find_file_canonical_absolute(files, gv, mrb_filename) ==
  IF mrb_check_array_type(gv) = NilVal
  THEN [exc |-> Exc(E_RUNTIME_ERROR, <<"invalid $:">>), val |-> NULL]
  ELSE IF mrb_filename # <<>> /\ Head(mrb_filename) = SLASH
  THEN IF fopen(files, mrb_filename)
       THEN [exc |-> NoExc, val |-> realpath(files, mrb_filename)]
       ELSE [exc |-> not_found(mrb_filename), val |-> NULL]
  ELSE LET r == find_file_loop(files, find_file_load_path(gv, mrb_filename),
                               find_file_exts(mrb_filename), mrb_filename, 1, 1)
       IN IF r # NULL THEN [exc |-> NoExc, val |-> r]
          ELSE [exc |-> not_found(mrb_filename), val |-> NULL]

\* find_file on the file system `files` with $: = gv: the path it returns (val),
\* or the exception it raises (exc)
find_file(files, gv, mrb_filename) ==
  IF mrb_check_array_type(gv) = NilVal
  THEN [exc |-> Exc(E_RUNTIME_ERROR, <<"invalid $:">>), val |-> NULL]
  ELSE IF mrb_filename # <<>> /\ Head(mrb_filename) = SLASH
  THEN IF fopen(files, mrb_filename)
       THEN [exc |-> NoExc, val |-> mrb_filename]
       ELSE [exc |-> not_found(mrb_filename), val |-> NULL]
  ELSE LET r == find_file_loop(files, find_file_load_path(gv, mrb_filename),
                               find_file_exts(mrb_filename), mrb_filename, 1, 1)
       IN IF r # NULL THEN [exc |-> NoExc, val |-> r]
          ELSE [exc |-> not_found(mrb_filename), val |-> NULL]

\* the value of $: after find_file: the function works on a duplicate and
\* rebinds only its local variable, the global keeps its value
find_file_gv(gv, mrb_filename) == gv

\* ----------------------------------------------------------- load state
\* loaded_files_check whose loops stop one entry early (i < RARRAY_LEN - 1)
loaded_files_check_short(loaded_files, loading_files, mrb_filepath) ==
  IF \E i \in 1..(Len(loaded_files.ary) - 1) : loaded_files.ary[i] = mrb_filepath THEN 0
  ELSE IF loading_files = NilVal THEN 1
  ELSE IF \E i \in 1..(Len(loading_files.ary) - 1) : loading_files.ary[i] = mrb_filepath
  THEN 0
  ELSE 1

\* loaded_files_check that looks at $" alone
loaded_files_check_loaded_only(loaded_files, loading_files, mrb_filepath) ==
  IF \E i \in 1..Len(loaded_files.ary) : loaded_files.ary[i] = mrb_filepath THEN 0 ELSE 1

\* loaded_files_check: 0 when mrb_filepath is in $" or in $"_ , 1 otherwise
\* ($"_ is nil until the first loading_files_add)
loaded_files_check(loaded_files, loading_files, mrb_filepath) ==
  IF \E i \in 1..Len(loaded_files.ary) : loaded_files.ary[i] = mrb_filepath THEN 0
  ELSE IF loading_files = NilVal THEN 1
  ELSE IF \E i \in 1..Len(loading_files.ary) : loading_files.ary[i] = mrb_filepath THEN 0
  ELSE 1

\* loading_files_add that creates $"_ but does not push the path
loading_files_add_dropping(loading_files, mrb_filepath) ==
  IF loading_files = NilVal THEN AryVal(<<>>) ELSE loading_files

\* loading_files_add: the value of $"_ after the call
loading_files_add(loading_files, mrb_filepath) ==
  AryVal(Append((IF loading_files = NilVal THEN AryVal(<<>>) ELSE loading_files).ary,
                mrb_filepath))

\* loaded_files_add: the value of $" after the call
loaded_files_add(loaded_files, mrb_filepath) == AryVal(Append(loaded_files.ary, mrb_filepath))

\* ------------------------------------------------------------- bytecode
OP_NOP     == "OP_NOP"
OP_STOP    == "OP_STOP"
OP_LOADNIL == "OP_LOADNIL"
OP_RETURN  == "OP_RETURN"

\* the flag bit of an irep whose instruction buffer the irep does not own
MRB_ISEQ_NO_FREE == 1

\* a decoded image: its instructions, its flags, and who owns the buffer that
\* holds the instructions ("heap": the irep, "extern": somebody else)
Irep(iseq, flags, buf) == [iseq |-> iseq, flags |-> flags, buf |-> buf]
NoIrep == Irep(<<>>, 0, "none")

\* flags & ~MRB_ISEQ_NO_FREE
ClearNoFree(flags) == (flags \div 2) * 2

\* replace_stop_with_return: the irep after the call.  buf "clobbered" is a
\* realloc of, and a write into, a buffer the irep does not own.
replace_stop_with_return(irep) ==
  IF irep.iseq[Len(irep.iseq)] = OP_STOP
  THEN IF irep.flags = MRB_ISEQ_NO_FREE
       THEN Irep(SubSeq(irep.iseq, 1, Len(irep.iseq) - 1) \o <<OP_LOADNIL, OP_RETURN>>,
                 ClearNoFree(irep.flags), "heap")
       ELSE Irep(SubSeq(irep.iseq, 1, Len(irep.iseq) - 1) \o <<OP_LOADNIL, OP_RETURN>>,
                 irep.flags, IF irep.buf = "extern" THEN "clobbered" ELSE "heap")
  ELSE irep

\* ------------------------------------------------------------ load_file
\* the branch load_file takes for a path: the extension is the text from the
\* last '.' of the whole path on
load_file(mrb_filepath) ==
  LET ext == strrchr_str(mrb_filepath, DOT)
  IN IF ext = NULL \/ ext = <<DOT, "rb">> THEN "rb"
     ELSE IF ext = <<DOT, "mrb">> THEN "mrb"
     ELSE IF ext = <<DOT, "so">> \/ ext = <<DOT, "dll">> \/ ext = <<DOT, "dylib">> THEN "so"
     ELSE "invalid"

\* the exception of load_file's last branch
invalid_extension(mrb_filepath) ==
  Exc(E_LOAD_ERROR, <<"Filepath '">> \o mrb_filepath \o <<"' has invalid extension.">>)

\* mrb_load_fail as load_rb_file calls it
mrb_load_fail(path) == Exc(E_LOAD_ERROR, <<"cannot load such file", " -- ">> \o path)

\* the exception of load_mrb_file when the file does not open
cant_load(fpath) == Exc(E_LOAD_ERROR, <<"can't load ">> \o fpath)

\* --------------------------------------------------------- load_so_file
\* the stem of the symbol names: the base name up to its last '.', with
\* every '-' replaced by '_'
so_stem(filepath) ==
  LET ptr == file_basename(filepath)
      cut == IF strrchr(ptr, DOT) = 0 THEN ptr ELSE SubSeq(ptr, 1, strrchr(ptr, DOT) - 1)
  IN [i \in 1..Len(cut) |-> IF cut[i] = DASH THEN "_" ELSE cut[i]]

\* the symbol names load_so_file looks up
so_entry(filepath)      == <<"mrb_">> \o so_stem(filepath) \o <<"_gem_init">>
so_entry_irep(filepath) == <<"gem_mrblib_irep_">> \o so_stem(filepath)

\* the exception raised when neither symbol is found in the library
failed_to_attach(filepath) ==
  Exc(E_LOAD_ERROR, <<"failed to attach ">> \o so_entry(filepath) \o <<" or ">>
                    \o so_entry_irep(filepath) \o <<" in library ">> \o filepath \o <<"\n">>)

\* the exception raised when the library does not open: CheckError finds
\* dlerror() set and raises with the text of a second dlerror(), which is NULL
failed_to_open(filepath) == Exc(E_RUNTIME_ERROR, <<>>)

\* ------------------------------------------------------- unload_so_file
\* the symbol name unload_so_file looks up
so_final(filepath) == <<"mrb_">> \o so_stem(filepath) \o <<"_gem_final">>

\* the exception raised when the library has no finalizer
cant_attach(filepath) == Exc(E_LOAD_ERROR, <<"can't attach ">> \o so_final(filepath))

\* ---------------------------------------------------------- environment
\* The files, search paths, libraries and arguments the model is run on.
f_w_x_rb    == <<"/", "w", "/", "x", ".", "rb">>
f_a_x_rb    == <<"/", "a", "/", "x", ".", "rb">>
f_a_x_mrb   == <<"/", "a", "/", "x", ".", "mrb">>
f_a_x_so    == <<"/", "a", "/", "x", ".", "so">>
f_b_x_rb    == <<"/", "b", "/", "x", ".", "rb">>
f_b_x_mrb   == <<"/", "b", "/", "x", ".", "mrb">>
f_a_x_dll   == <<"/", "a", "/", "x", ".", "dll">>
f_a_x_dylib == <<"/", "a", "/", "x", ".", "dylib">>
f_a_x_txt   == <<"/", "a", "/", "x", ".", "txt">>
f_vd_x      == <<"/", "v", ".", "d", "/", "x">>
f_a_z       == <<"/", "a", "/", "z">>
f_a_ne_so   == <<"/", "a", "/", "n", "-", "e", ".", "so">>
f_a_i_so    == <<"/", "a", "/", "i", ".", "so">>
f_a_o_so    == <<"/", "a", "/", "o", ".", "so">>
f_a_k_so    == <<"/", "a", "/", "k", ".", "so">>

d_a   == <<"/", "a">>
d_b   == <<"/", "b">>
d_dot == <<".">>

\* the arguments of require and load
n_x      == <<"x">>
n_dot_x  == <<".", "/", "x">>
n_x_rb   == <<"x", ".", "rb">>
n_x_mrb  == <<"x", ".", "mrb">>
n_x_so   == <<"x", ".", "so">>
n_w_d_x  == <<"/", "w", "/", ".", "/", "x", ".", "rb">>
n_b_up_x == <<"/", "b", "/", ".", ".", "/", "a", "/", "x", ".", "so">>
n_y      == <<"y">>
n_a_q_rb == <<"/", "a", "/", "q", ".", "rb">>
n_empty  == <<>>

\* a world: the regular files that exist, the value of $:, and the arguments
\* require and load are called with
World(files, lp, names) ==
  [files |-> files, load_path |-> lp, args |-> names, env |-> <<>>, later |-> {}]

\* worlds for the load-state bookkeeping: one file under several names, two
\* files under one base name, a bytecode file beside a library
Worlds ==
  { World({f_w_x_rb, f_a_x_rb}, AryVal(<<d_dot, d_a>>),
          { StrVal(n) : n \in {n_x, n_dot_x, n_w_d_x} }),
    World({f_w_x_rb, f_a_x_rb}, AryVal(<<d_a>>),
          { StrVal(n) : n \in {n_x, n_dot_x, n_y} } \cup {FixVal}),
    World({f_a_x_mrb, f_a_x_so}, AryVal(<<d_a>>),
          { StrVal(n) : n \in {n_x, n_x_so} }) }

\* worlds for the dispatcher and the native loader
LoaderWorlds ==
  { World({f_vd_x, f_a_z}, AryVal(<<d_a>>),
          { StrVal(n) : n \in {f_vd_x, f_a_z} }),
    World({f_a_x_dll, f_a_x_dylib}, AryVal(<<d_a>>),
          { StrVal(n) : n \in {<<"x", ".", "dll">>, <<"x", ".", "dylib">>} }),
    World({f_a_x_txt, f_a_x_mrb}, AryVal(<<d_a>>),
          { StrVal(n) : n \in {<<"x", ".", "txt">>, n_x} }),
    World({f_a_ne_so, f_a_o_so}, AryVal(<<d_a>>),
          { StrVal(n) : n \in {<<"n", "-", "e">>, <<"o">>} }),
    World({f_a_i_so, f_a_k_so}, AryVal(<<d_a>>),
          { StrVal(n) : n \in {<<"i">>, <<"k">>} }),
    World({f_a_x_so, f_a_x_rb}, AryVal(<<d_a>>),
          { StrVal(n) : n \in {n_x_so, n_x} }) }

\* worlds for the start of the interpreter: MRUBY_REQUIRE names two modules
f_a_y_rb == <<"/", "a", "/", "y", ".", "rb">>
BootWorlds ==
  { [World({f_a_x_rb, f_a_y_rb}, AryVal(<<d_a>>), { StrVal(n_x) }) EXCEPT !.env = e]
      : e \in { <<n_x, n_y>>, <<<<"q">>, n_y>> } }
    \cup { [World({f_a_x_mrb, f_a_y_rb}, AryVal(<<d_a>>), { StrVal(n_y) })
              EXCEPT !.env = <<n_x, n_y>>] }

\* worlds in which a missing file is created later
f_w_y_rb == <<"/", "w", "/", "y", ".", "rb">>
n_dot_y  == <<".", "/", "y">>
AppearWorlds ==
  { [World({}, AryVal(<<d_a>>), { StrVal(n_y), StrVal(n_dot_y) })
       EXCEPT !.later = {f_a_y_rb, f_w_y_rb}],
    World({f_a_y_rb}, StrVal(d_a), { StrVal(n_y) }) }

\* worlds of files that require themselves and each other
RequireWorlds ==
  { World({f_a_x_rb, f_a_y_rb}, AryVal(<<d_a>>), { StrVal(n_x), StrVal(n_y) }),
    World({f_a_x_mrb, f_a_x_so}, AryVal(<<d_a>>), { StrVal(n_x), StrVal(n_x_so) }) }

\* the inputs find_file is run on by itself: every set of these files, these
\* values of $:, these names
f_a_dot_rb == <<"/", "a", "/", ".", "rb">>
ResolveFiles == {f_a_x_rb, f_a_x_mrb, f_a_x_so, f_b_x_rb, f_b_x_mrb, f_w_x_rb, f_a_dot_rb}
ResolveLoadPaths ==
  { AryVal(<<d_a, d_b>>), AryVal(<<d_b, d_a>>), AryVal(<<d_a>>), AryVal(<<d_dot, d_b>>),
    AryVal(<<>>), NilVal, StrVal(d_a) }
ResolveArgs ==
  { StrVal(n) : n \in {n_x, n_dot_x, n_x_rb, n_x_mrb, n_x_so, f_a_x_rb, f_b_x_mrb,
                       n_w_d_x, n_b_up_x, n_empty} }

\* the symbols each shared library exports; a file that is no key of this
\* function is not a loadable library
LibSyms ==
  (f_a_x_so    :> { <<"mrb_", "x", "_gem_init">>, <<"gem_mrblib_irep_", "x">> }) @@
  (f_a_x_dll   :> { <<"mrb_", "x", "_gem_init">>, <<"mrb_", "x", "_gem_final">> }) @@
  (f_a_x_dylib :> { <<"gem_mrblib_irep_", "x">> }) @@
  (f_a_ne_so   :> { <<"mrb_", "n", "_", "e", "_gem_init">>, <<"mrb_", "n", "_", "e", "_gem_final">> }) @@
  (f_a_i_so    :> { <<"gem_mrblib_irep_", "i">> }) @@
  (f_a_o_so    :> { <<"mrb_", "o", "_gem_final">> })

\* dlopen(filepath) returns a handle
dlopen(files, filepath) == fopen(files, filepath) /\ realpath(files, filepath) \in DOMAIN LibSyms

\* dlsym(handle, symbol) is not NULL
dlsym(files, filepath, symbol) == symbol \in LibSyms[realpath(files, filepath)]

\* unload_so_file: "final" when the finalizer was called, "raised" with the
\* exception when the library does not open or has no finalizer.  free(tmp)
\* is handed the address of the terminating NUL of the strdup'ed name, not the
\* address strdup returned (unless the stem is empty): the allocator may stop
\* the process there ("crashed", when `crash` is chosen) or go on.
unload_so_file(files, filepath, crash) ==
  IF ~dlopen(files, filepath) THEN [res |-> "raised", err |-> failed_to_open(filepath)]
  ELSE IF crash /\ so_stem(filepath) # <<>> THEN [res |-> "crashed", err |-> NoExc]
  ELSE IF ~dlsym(files, filepath, so_final(filepath))
  THEN [res |-> "raised", err |-> cant_attach(filepath)]
  ELSE [res |-> "final", err |-> NoExc]

\* the loop of mrb_mruby_require_gem_final from entry i of $" on: fin collects
\* the paths whose finalizer was called; a raise or a crash ends the loop
RECURSIVE gem_final_loop(_, _, _, _, _)
gem_final_loop(files, loaded_files, i, crashAt, fin) ==
  IF i > Len(loaded_files) THEN [res |-> "done", err |-> NoExc, fin |-> fin]
  ELSE IF strrchr_str(loaded_files[i], DOT) = <<DOT, "so">>
  THEN LET u == unload_so_file(files, loaded_files[i], crashAt = i)
       IN IF u.res = "final"
          THEN gem_final_loop(files, loaded_files, i + 1, crashAt, Append(fin, loaded_files[i]))
          ELSE [res |-> u.res, err |-> u.err, fin |-> fin]
  ELSE gem_final_loop(files, loaded_files, i + 1, crashAt, fin)

\* what the interpreter's decoder can hand back for a bytecode image: an irep
\* (irep # NoIrep), or NULL with or without an exception left in mrb->exc
Ireps ==
  { Irep(<<OP_NOP, OP_STOP>>, 0, "heap"),
    Irep(<<OP_NOP, OP_STOP>>, MRB_ISEQ_NO_FREE, "extern"),
    Irep(<<OP_NOP, OP_STOP>>, MRB_ISEQ_NO_FREE + 2, "extern"),
    Irep(<<OP_NOP, OP_RETURN>>, MRB_ISEQ_NO_FREE, "extern") }
DecodeExc == Exc(E_LOAD_ERROR, <<"irep load error">>)
Decoded ==
  { [irep |-> i, exc |-> NoExc] : i \in Ireps }
    \cup { [irep |-> NoIrep, exc |-> NoExc], [irep |-> NoIrep, exc |-> DecodeExc] }

\* the decoder is not called
NoDecode == [irep |-> NoIrep, exc |-> NoExc]

\* the exception a loaded script, bytecode or init function raises
CodeExc == Exc("StandardError", <<"raised by loaded code">>)

\* ---------------------------------------------------------------- state
VARIABLES
  fs,            \* the regular files that exist
  args,          \* the arguments the callers of require and load use
  gv_load_path,  \* the global $:
  gv_loaded,     \* the global $"  (loaded files)
  gv_loading,    \* the global $"_ (loading files), nil until first used
  gv_script,     \* the global $0
  stack,         \* the loads in progress, innermost last: each is a loader
                 \* that has handed control to the code of its file
  mrb_exc,       \* mrb->exc
  jmp,           \* an exception is being thrown (longjmp / VM raise) and has
                 \* reached the code of the innermost frame, or the host
  phase,         \* "init": mrb_mruby_require_gem_init is running, "run": the
                 \* host runs, "failed": gem_init was left by an exception,
                 \* "down": mrb_mruby_require_gem_final has run
  env,           \* the names of MRUBY_REQUIRE that gem_init has not required yet
  later,         \* files that do not exist yet and may be created
  ev             \* what the last step did, for the properties below

vars == <<fs, args, gv_load_path, gv_loaded, gv_loading, gv_script, stack, mrb_exc, jmp,
          phase, env, later, ev>>

\* a load in progress: the function called, the resolved path, the code
\* that is running ("rb" script, "mrb" bytecode, "so_init" the init
\* function of a library, "so_irep" the bytecode embedded in a library)
Frame(op, path, code) == [op |-> op, path |-> path, code |-> code]

\* the record of a step: where it happened ("call": require/load was called,
\* "resume": the code of a file gave control back to its loader, "unwind": a
\* throw passed a loader, "code": the loaded code or the host acted), the
\* function, its argument and resolved path, the result ("true", "false",
\* "raised", or "running" while the loaded code runs), the loader load_file
\* chose, the code that was started, the exception raised, the irep that was
\* handed to the interpreter to run and the irep the decoder gave (src), and
\* the finalizers gem_final called (fin)
Event(at, op, name, path, res, loader, ran, err) ==
  [at |-> at, op |-> op, name |-> name, path |-> path, res |-> res,
   loader |-> loader, ran |-> ran, err |-> err, irep |-> NoIrep, src |-> NoIrep,
   fin |-> <<>>]

\* the next values of the variables a step can change
Eff(loaded, loading, script, stk, e, j, event) ==
  [loaded |-> loaded, loading |-> loading, script |-> script, stack |-> stk,
   exc |-> e, jmp |-> j, ev |-> event]

\* a step whose effect is x (x is evaluated once, then assigned)
Apply(x) ==
  \E y \in {x} :
    /\ gv_loaded' = y.loaded
    /\ gv_loading' = y.loading
    /\ gv_script' = y.script
    /\ stack' = y.stack
    /\ mrb_exc' = y.exc
    /\ jmp' = y.jmp
    /\ ev' = y.ev
    /\ args' = args

\* mrb_raise and friends called in a C function of this file: the exception
\* is thrown to the caller, nothing after the call runs
Raise(at, op, name, path, loader, stk, loading, x) ==
  Eff(gv_loaded, loading, gv_script, stk, x, TRUE,
      Event(at, op, name, path, "raised", loader, "none", x))

\* The end of mrb_require (op = "require": loaded_files_add, return true) or
\* of mrb_load (return true) once load_file has returned, with mrb->exc = e.
\* A script that called gets the exception left in mrb->exc raised by the VM
\* when the C function returns; a C caller gets the return value.
Finish(at, op, name, path, loader, stk, loading, e) ==
  Eff(IF op = "require" THEN loaded_files_add(gv_loaded, path) ELSE gv_loaded,
      loading, gv_script, stk, e, e # NoExc /\ stk # <<>>,
      Event(at, op, name, path, "true", loader, "none", NoExc))

\* load_mrb_file after the file opened, and mrb_load_irep_data: the image is
\* decoded (d is what the decoder hands back); an irep has its terminal stop
\* rewritten and is run, NULL with mrb->exc set is a longjmp, NULL alone
\* returns
load_irep(at, op, name, path, loader, code, stk, loading, e, d) ==
  LET e1 == IF d.exc # NoExc THEN d.exc ELSE e
  IN IF d.irep # NoIrep
     THEN Eff(gv_loaded, loading, gv_script, Append(stk, Frame(op, path, code)),
              e1, FALSE,
              [Event(at, op, name, path, "running", loader, "bytecode", NoExc)
                 EXCEPT !.irep = replace_stop_with_return(d.irep), !.src = d.irep])
     ELSE IF e1 # NoExc
     THEN Raise(at, op, name, path, loader, stk, loading, e1)
     ELSE Finish(at, op, name, path, loader, stk, loading, e1)

\* load_rb_file
load_rb_file(op, name, path, loading) ==
  IF ~fopen(fs, path)
  THEN Raise("call", op, name, path, "rb", stack, loading, mrb_load_fail(path))
  ELSE Eff(gv_loaded, loading, path, Append(stack, Frame(op, path, "rb")),
           mrb_exc, FALSE, Event("call", op, name, path, "running", "rb", "script", NoExc))

\* load_mrb_file
load_mrb_file(op, name, path, loading, d) ==
  IF ~fopen(fs, path)
  THEN Raise("call", op, name, path, "mrb", stack, loading, cant_load(path))
  ELSE load_irep("call", op, name, path, "mrb", "mrb", stack, loading, mrb_exc, d)

\* load_so_file without the check that one of the two symbols was found
load_so_file_unchecked(op, name, path, loading, d) ==
  IF ~dlopen(fs, path)
  THEN Raise("call", op, name, path, "so", stack, loading, failed_to_open(path))
  ELSE IF dlsym(fs, path, so_entry(path))
  THEN Eff(gv_loaded, loading, gv_script, Append(stack, Frame(op, path, "so_init")),
           mrb_exc, FALSE, Event("call", op, name, path, "running", "so", "init", NoExc))
  ELSE IF dlsym(fs, path, so_entry_irep(path))
  THEN load_irep("call", op, name, path, "so", "so_irep", stack, loading, mrb_exc, d)
  ELSE Finish("call", op, name, path, "so", stack, loading, mrb_exc)

\* load_so_file with the two symbols taken in the other order: the embedded
\* bytecode is decoded and run first
load_so_file_irep_first(op, name, path, loading, d) ==
  IF ~dlopen(fs, path)
  THEN Raise("call", op, name, path, "so", stack, loading, failed_to_open(path))
  ELSE IF ~dlsym(fs, path, so_entry(path)) /\ ~dlsym(fs, path, so_entry_irep(path))
  THEN Raise("call", op, name, path, "so", stack, loading, failed_to_attach(path))
  ELSE IF dlsym(fs, path, so_entry_irep(path))
  THEN load_irep("call", op, name, path, "so", "so_irep", stack, loading, mrb_exc, d)
  ELSE Eff(gv_loaded, loading, gv_script,
           Append(stack, Frame(op, path, "so_init")),
           mrb_exc, FALSE, Event("call", op, name, path, "running", "so", "init", NoExc))

\* load_so_file up to the call of the init function
load_so_file(op, name, path, loading, d) ==
  IF ~dlopen(fs, path)
  THEN Raise("call", op, name, path, "so", stack, loading, failed_to_open(path))
  ELSE IF ~dlsym(fs, path, so_entry(path)) /\ ~dlsym(fs, path, so_entry_irep(path))
  THEN Raise("call", op, name, path, "so", stack, loading, failed_to_attach(path))
  ELSE IF dlsym(fs, path, so_entry(path))
  THEN Eff(gv_loaded, loading, gv_script,
           Append(stack, Frame(op, path, "so_init")),
           mrb_exc, FALSE, Event("call", op, name, path, "running", "so", "init", NoExc))
  ELSE load_irep("call", op, name, path, "so", "so_irep", stack, loading, mrb_exc, d)

\* load_file: the loader chosen by extension, up to the point where the
\* loaded code runs
load_file_call(op, name, path, loading, d) ==
  CASE load_file(path) = "rb"  -> load_rb_file(op, name, path, loading)
    [] load_file(path) = "mrb" -> load_mrb_file(op, name, path, loading, d)
    [] load_file(path) = "so"  -> load_so_file(op, name, path, loading, d)
    [] OTHER -> Raise("call", op, name, path, "none", stack, loading, invalid_extension(path))

\* mrb_require without loaded_files_check: every path that resolves is loaded
mrb_require_unchecked(name, d) ==
  LET r == find_file(fs, gv_load_path, name)
  IN IF r.exc # NoExc
     THEN Raise("call", "require", name, NULL, "none", stack, gv_loading, r.exc)
     ELSE load_file_call("require", name, r.val, loading_files_add(gv_loading, r.val), d)

\* mrb_require that answers false when find_file fails
mrb_require_quiet(name, d) ==
  LET r == find_file(fs, gv_load_path, name)
  IN IF r.exc # NoExc \/ loaded_files_check(gv_loaded, gv_loading, r.val) = 0
     THEN Eff(gv_loaded, gv_loading, gv_script, stack, mrb_exc,
              mrb_exc # NoExc /\ stack # <<>>,
              Event("call", "require", name, r.val, "false", "none", "none", NoExc))
     ELSE load_file_call("require", name, r.val, loading_files_add(gv_loading, r.val), d)

\* mrb_require that does not put the path into $"_ before it loads
mrb_require_unmarked(name, d) ==
  LET r == find_file(fs, gv_load_path, name)
  IN IF r.exc # NoExc
     THEN Raise("call", "require", name, NULL, "none", stack, gv_loading, r.exc)
     ELSE IF loaded_files_check(gv_loaded, gv_loading, r.val) = 0
     THEN Eff(gv_loaded, gv_loading, gv_script, stack, mrb_exc,
              mrb_exc # NoExc /\ stack # <<>>,
              Event("call", "require", name, r.val, "false", "none", "none", NoExc))
     ELSE load_file_call("require", name, r.val, gv_loading, d)

\* mrb_require up to the point where the loaded code runs
mrb_require(name, d) ==
  LET r == find_file(fs, gv_load_path, name)
  IN IF r.exc # NoExc
     THEN Raise("call", "require", name, NULL, "none", stack, gv_loading, r.exc)
     ELSE IF loaded_files_check(gv_loaded, gv_loading, r.val) = 0
     THEN Eff(gv_loaded, gv_loading, gv_script, stack, mrb_exc,
              mrb_exc # NoExc /\ stack # <<>>,
              Event("call", "require", name, r.val, "false", "none", "none", NoExc))
     ELSE load_file_call("require", name, r.val, loading_files_add(gv_loading, r.val), d)

\* mrb_load that consults the load state as mrb_require does
mrb_load_checked(name, d) ==
  LET r == find_file(fs, gv_load_path, name)
  IN IF r.exc # NoExc
     THEN Raise("call", "load", name, NULL, "none", stack, gv_loading, r.exc)
     ELSE IF loaded_files_check(gv_loaded, gv_loading, r.val) = 0
     THEN Eff(gv_loaded, gv_loading, gv_script, stack, mrb_exc,
              mrb_exc # NoExc /\ stack # <<>>,
              Event("call", "load", name, r.val, "false", "none", "none", NoExc))
     ELSE load_file_call("load", name, r.val, gv_loading, d)

\* mrb_load that puts the path into $"_ as mrb_require does
mrb_load_marking(name, d) ==
  LET r == find_file(fs, gv_load_path, name)
  IN IF r.exc # NoExc
     THEN Raise("call", "load", name, NULL, "none", stack, gv_loading, r.exc)
     ELSE load_file_call("load", name, r.val, loading_files_add(gv_loading, r.val), d)

\* mrb_load up to the point where the loaded code runs
mrb_load(name, d) ==
  LET r == find_file(fs, gv_load_path, name)
  IN IF r.exc # NoExc
     THEN Raise("call", "load", name, NULL, "none", stack, gv_loading, r.exc)
     ELSE load_file_call("load", name, r.val, gv_loading, d)

\* the TypeError of mrb_f_require and mrb_f_load for an argument that is no String
cant_convert(a) == Exc(E_TYPE_ERROR, <<"can't convert ", a.type, " into String">>)

\* the rest of a loader once the code of its file has given control back with
\* mrb->exc = e: load_so_file goes on to the embedded bytecode, every other
\* loader returns and mrb_require / mrb_load finish
loader_resume(f, stk, e, d) ==
  IF f.code = "so_init" /\ dlsym(fs, f.path, so_entry_irep(f.path))
  THEN load_irep("resume", f.op, <<>>, f.path, "so", "so_irep", stk, gv_loading, e, d)
  ELSE Finish("resume", f.op, <<>>, f.path, "none", stk, gv_loading, e)

\* ------------------------------------------------------------- actions
\* what the decoder may hand back during a call with argument a: the decoder
\* runs only in the bytecode loader and in the native loader
DecodedAt(a) ==
  IF /\ a.type = "String"
     /\ find_file(fs, gv_load_path, a.str).exc = NoExc
     /\ load_file(find_file(fs, gv_load_path, a.str).val) \in {"mrb", "so"}
  THEN Decoded ELSE {NoDecode}

\* the host may call require and load once gem_init has returned, the code of
\* the innermost file in progress may while it runs
CanCall == ~jmp /\ phase # "down" /\ (stack # <<>> \/ phase = "run")

Top == stack[Len(stack)]
Pop == SubSeq(stack, 1, Len(stack) - 1)

\* Kernel#require.  The nesting of requires needs no bound: a path is
\* dispatched by require once.
mrb_f_require ==
  /\ CanCall
  /\ \E a \in args : \E d \in DecodedAt(a) :
       /\ gv_load_path' = (IF a.type = "String" THEN find_file_gv(gv_load_path, a.str)
                                                ELSE gv_load_path)
       /\ Apply(IF a.type # "String"
                THEN Raise("call", "require", a.str, NULL, "none", stack, gv_loading,
                           cant_convert(a))
                ELSE mrb_require(a.str, d))
  /\ UNCHANGED <<fs, phase, env, later>>

\* Kernel#load
mrb_f_load ==
  /\ CanCall /\ Len(stack) < MaxDepth
  /\ \E a \in args : \E d \in DecodedAt(a) :
       /\ gv_load_path' = (IF a.type = "String" THEN find_file_gv(gv_load_path, a.str)
                                                ELSE gv_load_path)
       /\ Apply(IF a.type # "String"
                THEN Raise("call", "load", a.str, NULL, "none", stack, gv_loading,
                           cant_convert(a))
                ELSE mrb_load(a.str, d))
  /\ UNCHANGED <<fs, phase, env, later>>

\* The code of the innermost file gives control back to its loader: it ran to
\* its end (~jmp), or an exception ended it and the interpreter returned with
\* the exception left in mrb->exc (jmp).
run_return ==
  /\ stack # <<>>
  /\ \E d \in (IF Top.code = "so_init" THEN Decoded ELSE {NoDecode}) :
       Apply(loader_resume(Top, Pop, mrb_exc, d))
  /\ UNCHANGED <<gv_load_path, fs, phase, env, later>>

\* The code of the innermost file raises an exception.
run_raise ==
  /\ stack # <<>> /\ ~jmp
  /\ Apply(Eff(gv_loaded, gv_loading, gv_script, stack, CodeExc, TRUE,
               Event("code", "none", <<>>, NULL, "raised", "none", "none", CodeExc)))
  /\ UNCHANGED <<gv_load_path, fs, phase, env, later>>

\* The code of the innermost file rescues the exception that reached it.
run_rescue ==
  /\ stack # <<>> /\ jmp
  /\ Apply(Eff(gv_loaded, gv_loading, gv_script, stack, NoExc, FALSE,
               Event("code", "none", <<>>, NULL, "rescued", "none", "none", NoExc)))
  /\ UNCHANGED <<gv_load_path, fs, phase, env, later>>

\* The exception is thrown out of the code of the innermost file, past its
\* loader and past mrb_require / mrb_load, to whoever called them.
unwind ==
  /\ stack # <<>> /\ jmp
  /\ Apply(Eff(gv_loaded, gv_loading, gv_script, Pop, mrb_exc, TRUE,
               Event("unwind", Top.op, <<>>, Top.path, "raised", "none", "none", mrb_exc)))
  /\ UNCHANGED <<gv_load_path, fs, phase, env, later>>

\* The host handles the exception it got, or clears the one left in mrb->exc.
host_clear ==
  /\ phase = "run" /\ stack = <<>> /\ mrb_exc # NoExc
  /\ Apply(Eff(gv_loaded, gv_loading, gv_script, stack, NoExc, FALSE,
               Event("code", "none", <<>>, NULL, "cleared", "none", "none", NoExc)))
  /\ UNCHANGED <<gv_load_path, fs, phase, env, later>>

\* mrb_mruby_require_gem_final, called when the host closes the interpreter
mrb_mruby_require_gem_final ==
  /\ phase = "run" /\ stack = <<>>
  /\ \E crashAt \in 0..Len(gv_loaded.ary) :
       LET r == gem_final_loop(fs, gv_loaded.ary, 1, crashAt, <<>>)
       IN /\ ev' = [Event("final", "none", <<>>, NULL, r.res, "none", "none", r.err)
                      EXCEPT !.fin = r.fin]
          /\ mrb_exc' = (IF r.res = "raised" THEN r.err ELSE mrb_exc)
          /\ jmp' = (IF r.res = "raised" THEN TRUE ELSE jmp)
  /\ phase' = "down"
  /\ UNCHANGED <<fs, args, gv_load_path, gv_loaded, gv_loading, gv_script, stack, env, later>>

\* the body of the while loop of mrb_mruby_require_gem_init: the next name of
\* MRUBY_REQUIRE is required
gem_init_require ==
  /\ phase = "init" /\ stack = <<>> /\ ~jmp /\ env # <<>>
  /\ \E d \in DecodedAt(StrVal(Head(env))) :
       /\ gv_load_path' = find_file_gv(gv_load_path, Head(env))
       /\ Apply(mrb_require(Head(env), d))
  /\ env' = Tail(env)
  /\ UNCHANGED <<fs, phase, later>>

\* the end of mrb_mruby_require_gem_init: every name has been required
gem_init_return ==
  /\ phase = "init" /\ stack = <<>> /\ ~jmp /\ env = <<>>
  /\ phase' = "run"
  /\ ev' = Event("boot", "none", <<>>, NULL, "done", "none", "none", NoExc)
  /\ UNCHANGED <<fs, args, gv_load_path, gv_loaded, gv_loading, gv_script, stack, mrb_exc,
                 jmp, env, later>>

\* an exception thrown by a require of the loop leaves mrb_mruby_require_gem_init
gem_init_raise ==
  /\ phase = "init" /\ stack = <<>> /\ jmp
  /\ phase' = "failed"
  /\ ev' = Event("boot", "none", <<>>, NULL, "raised", "none", "none", mrb_exc)
  /\ UNCHANGED <<fs, args, gv_load_path, gv_loaded, gv_loading, gv_script, stack, mrb_exc,
                 jmp, env, later>>

\* a file that did not exist is created
file_appears ==
  /\ phase = "run"
  /\ \E f \in later :
       /\ fs' = fs \cup {f}
       /\ later' = later \ {f}
       /\ ev' = Event("fs", "none", f, NULL, "created", "none", "none", NoExc)
  /\ UNCHANGED <<args, gv_load_path, gv_loaded, gv_loading, gv_script, stack, mrb_exc, jmp,
                 phase, env>>

\* find_file called by itself
resolve ==
  /\ \E a \in args :
       LET r == find_file(fs, gv_load_path, a.str)
       IN /\ gv_load_path' = find_file_gv(gv_load_path, a.str)
          /\ ev' = Event("resolve", "none", a.str, r.val,
                         IF r.exc = NoExc THEN "found" ELSE "raised", "none", "none", r.exc)
  /\ UNCHANGED <<fs, args, gv_loaded, gv_loading, gv_script, stack, mrb_exc, jmp,
                 phase, env, later>>

\* The state mrb_mruby_require_gem_init sets up before it looks at
\* MRUBY_REQUIRE: $" is an empty array, $"_ and $0 are unset.  ph = "run" is
\* the state after gem_init with MRUBY_REQUIRE unset.
InitOf(worlds, ph) ==
  /\ \E w \in worlds :
       /\ fs = w.files /\ args = w.args /\ gv_load_path = w.load_path
       /\ env = w.env /\ later = w.later
  /\ phase = ph
  /\ gv_loaded = AryVal(<<>>)
  /\ gv_loading = NilVal
  /\ gv_script = NULL
  /\ stack = <<>>
  /\ mrb_exc = NoExc
  /\ jmp = FALSE
  /\ ev = Event("init", "none", <<>>, NULL, "none", "none", "none", NoExc)

InitIn(worlds) == InitOf(worlds, "run")

Init == InitIn(Worlds)

InitLoaders == InitIn(LoaderWorlds)

InitResolve ==
  InitIn({ World(f, lp, ResolveArgs) : f \in SUBSET ResolveFiles, lp \in ResolveLoadPaths })

InitBoot == InitOf(BootWorlds, "init")

InitAppear == InitIn(AppearWorlds)

InitRequire == InitIn(RequireWorlds)

Next ==
  \/ mrb_f_require
  \/ mrb_f_load
  \/ run_return
  \/ run_raise
  \/ run_rescue
  \/ unwind
  \/ host_clear
  \/ mrb_mruby_require_gem_final

NextResolve == resolve

NextBoot ==
  \/ gem_init_require
  \/ gem_init_return
  \/ gem_init_raise
  \/ Next

NextAppear ==
  \/ file_appears
  \/ Next

NextRequire ==
  \/ mrb_f_require
  \/ run_return
  \/ run_raise
  \/ run_rescue
  \/ unwind
  \/ host_clear

\* require and load called by the host and by loaded code
Spec == Init /\ [][Next]_vars

\* the same on the worlds of the dispatcher and the native loader
SpecLoaders == InitLoaders /\ [][Next]_vars

\* the resolver alone, on every combination of its inputs
SpecResolve == InitResolve /\ [][NextResolve]_vars

\* the interpreter from the start of mrb_mruby_require_gem_init on
SpecBoot == InitBoot /\ [][NextBoot]_vars

\* a file system in which missing files get created
SpecAppear == InitAppear /\ [][NextAppear]_vars

\* loaded code that calls require and never load; the code of every file comes
\* to an end
SpecRequire == InitRequire /\ [][NextRequire]_vars /\ WF_vars(run_return)

\* =================================================================
\* Properties
\* =================================================================
\* a step in which require / load was called and find_file returned a path
RequireCalled(e) == e.at = "call" /\ e.op = "require" /\ e.path # NULL
LoadCalled(e)    == e.at = "call" /\ e.op = "load" /\ e.path # NULL

\* load_file handed the path to one of the three loaders in that step
Dispatched(e) == e.loader \in {"rb", "mrb", "so"}

\* sub occurs in s as a contiguous piece
Contains(s, sub) ==
  \E i \in 1..(Len(s) - Len(sub) + 1) : SubSeq(s, i, i + Len(sub) - 1) = sub

\* the file name of a path (its last component) and the extension of that
\* file name: the text from its last '.' on, <<>> when it has none
LastComponent(path) == Split(path)[Len(Split(path))]
ExtensionOf(path) ==
  LET b == LastComponent(path)
  IN IF DOT \notin Range(b) THEN <<>>
     ELSE SubSeq(b, CHOOSE i \in 1..Len(b) : b[i] = DOT /\ DOT \notin Range(SubSeq(b, i + 1, Len(b))),
                 Len(b))

\* ----------------------------------------------------------------- C1
\* C1: once a path is in the loaded list, every later require of a name that
\* resolves to it returns false, hands the path to no loader, starts no code
\* and leaves the loaded list as it is.
C1_RequireOfLoadedIsNoOp ==
  [][ (RequireCalled(ev') /\ ev'.path \in Range(gv_loaded.ary))
        => /\ ev'.res = "false"
           /\ ~Dispatched(ev') /\ ev'.ran = "none"
           /\ stack' = stack
           /\ gv_loaded' = gv_loaded ]_vars

\* a require of "./x" answered false because /w/x.rb was loaded before
C1_Witness ==
  /\ RequireCalled(ev) /\ ev.name = n_dot_x /\ ev.path = f_w_x_rb
  /\ ev.res = "false"
  /\ f_w_x_rb \in Range(gv_loaded.ary)

\* ----------------------------------------------------------------- C2
\* the path has an extension load_file knows (none, .rb, .mrb, .so, .dll, .dylib)
HasLoader(path) ==
  \/ DOT \notin Range(path)
  \/ \E x \in {"rb", "mrb", "so", "dll", "dylib"} :
       /\ Len(path) >= 2
       /\ SubSeq(path, Len(path) - 1, Len(path)) = <<DOT, x>>

\* C2: every load whose name resolves hands the resolved path to its loader,
\* also when the path is in the loaded or the loading list; a require never
\* hands a path of the loaded list to a loader.
C2_LoadAlwaysDispatches ==
  [][ /\ (LoadCalled(ev') /\ HasLoader(ev'.path))
          => (Dispatched(ev') /\ ev'.res # "false")
      /\ (RequireCalled(ev') /\ ev'.path \in Range(gv_loaded.ary))
          => ~Dispatched(ev') ]_vars

\* a load ran the script of a path that is in both lists
C2_Witness ==
  /\ LoadCalled(ev) /\ ev.loader = "rb" /\ ev.ran = "script"
  /\ ev.path \in Range(gv_loaded.ary)
  /\ ev.path \in Range(gv_loading.ary)

\* ----------------------------------------------------------------- C3
\* C3: require deduplicates by canonical file: when a name denotes the same
\* canonical file as a path that require has loaded, the call returns false
\* and the file is not executed again.
C3_DedupByCanonicalPath ==
  [][ (RequireCalled(ev')
        /\ \E q \in Range(gv_loaded.ary) : realpath(fs, q) = realpath(fs, ev'.path))
        => (ev'.res = "false" /\ ~Dispatched(ev')) ]_vars

\* ----------------------------------------------------------------- C4
\* C4: the loaded list changes only by a require appending the path it
\* dispatched, after the code of the file ran to its end without an exception
\* and without a decode failure; nothing is ever removed from it.
C4_LoadedOnlyAfterCleanLoad ==
  [][ gv_loaded' # gv_loaded
        => /\ ev'.op = "require" /\ ev'.res = "true"
           /\ gv_loaded'.ary = Append(gv_loaded.ary, ev'.path)
           /\ ev'.at = "resume" /\ ~Dispatched(ev')
           /\ ~jmp /\ mrb_exc' = NoExc ]_vars

\* ----------------------------------------------------------------- C5
\* C5: when the code of a source file ends by an exception, the require or
\* load that ran it ends with that exception raised in its caller, not with a
\* normal return.
C5_ScriptExceptionPropagates ==
  [][ (stack # <<>> /\ Top.code = "rb" /\ jmp /\ stack' = Pop)
        => (jmp' /\ mrb_exc' = mrb_exc) ]_vars

\* ----------------------------------------------------------------- C6
\* the kinds of name the resolver tells apart
IsAbsolute(name) == name # <<>> /\ Head(name) = SLASH
IsDotName(name)  == name # <<>> /\ Head(name) = DOT
IsBare(name)     == name # <<>> /\ ~IsAbsolute(name) /\ ~IsDotName(name)

\* the implied extensions in priority order: source, bytecode, native
ImpliedExts == << <<DOT, "rb">>, <<DOT, "mrb">>, <<DOT, "so">> >>

\* the extensions tried for a name: none when its file name has an extension
TriedExts(name) == IF ExtensionOf(name) = <<>> THEN ImpliedExts ELSE << <<>> >>

\* the candidate for directory i of dirs and extension j of the tried ones
Candidate(dirs, name, i, j) == dirs[i] \o <<SLASH>> \o name \o TriedExts(name)[j]

\* the (directory, extension) index pairs whose candidate opens
Hits(files, dirs, name) ==
  { h \in (1..Len(dirs)) \X (1..Len(TriedExts(name))) :
      realpath(files, Candidate(dirs, name, h[1], h[2])) # NULL }

\* h comes first in (directory, extension) order
FirstOf(h, hits) == \A g \in hits : h[1] < g[1] \/ (h[1] = g[1] /\ h[2] <= g[2])

\* the event e is the outcome of searching name in dirs: the canonical path of
\* the first candidate that opens, the not-found ScriptError when none does
SearchOutcome(e, files, dirs, name) ==
  IF Hits(files, dirs, name) = {}
  THEN e.res = "raised" /\ e.path = NULL
       /\ e.err = Exc("ScriptError", <<"cannot load such file -- ">> \o name)
  ELSE \E h \in Hits(files, dirs, name) :
         /\ FirstOf(h, Hits(files, dirs, name))
         /\ e.res = "found" /\ e.err = NoExc
         /\ e.path = realpath(files, Candidate(dirs, name, h[1], h[2]))

\* C6: for a bare name and an array in $:, find_file returns the first
\* candidate that opens, directories in the order of $: and inside a directory
\* .rb before .mrb before .so; a name with an extension is tried as dir/name
\* only.
C6_FirstCandidateWins ==
  (ev.at = "resolve" /\ IsBare(ev.name) /\ gv_load_path.type = "Array")
    => SearchOutcome(ev, fs, gv_load_path.ary, ev.name)

\* /a holds only x.so, /b holds x.rb: the earlier directory wins with the
\* later extension
C6_Witness ==
  /\ ev.at = "resolve" /\ ev.name = n_x
  /\ gv_load_path = AryVal(<<d_a, d_b>>)
  /\ fs \cap {f_a_x_rb, f_a_x_mrb, f_a_x_so, f_b_x_rb} = {f_a_x_so, f_b_x_rb}
  /\ ev.path = f_a_x_so

\* ----------------------------------------------------------------- C7
\* the event e is the outcome of opening exactly `name`
VerbatimOutcome(e, files, name) ==
  IF realpath(files, name) # NULL
  THEN e.res = "found" /\ e.path = name /\ e.err = NoExc
  ELSE e.res = "raised" /\ e.path = NULL
       /\ e.err = Exc("ScriptError", <<"cannot load such file -- ">> \o name)

\* C7 as claimed: for an absolute name the outcome depends only on whether
\* the file at that name opens, whatever $: holds, an array or not.
C7_AbsoluteWhateverLoadPath ==
  (ev.at = "resolve" /\ IsAbsolute(ev.name)) => VerbatimOutcome(ev, fs, ev.name)

\* C7 amended: that holds for every array in $:; when $: holds no array the
\* call raises RuntimeError "invalid $:" before it looks at the name.
C7_AbsoluteBypassesSearch ==
  (ev.at = "resolve" /\ IsAbsolute(ev.name))
    => IF gv_load_path.type = "Array"
       THEN VerbatimOutcome(ev, fs, ev.name)
       ELSE ev.res = "raised" /\ ev.path = NULL
            /\ ev.err = Exc("RuntimeError", <<"invalid $:">>)

\* /w/./x.rb opens and comes back as written, not as /w/x.rb
C7_Witness ==
  /\ ev.at = "resolve" /\ ev.name = n_w_d_x /\ gv_load_path.type = "Array"
  /\ ev.res = "found" /\ ev.path = n_w_d_x

\* ----------------------------------------------------------------- C8
\* C8: a name that starts with '.' is searched in the directory "." alone,
\* whatever directories the array in $: holds, and the call leaves $: as it
\* was (a $: that holds no array is the "invalid $:" error and no search).
C8_DotNameSearchesCwdOnly ==
  [][ (ev'.at = "resolve" /\ IsDotName(ev'.name))
        => /\ IF gv_load_path.type = "Array"
              THEN SearchOutcome(ev', fs, << <<DOT>> >>, ev'.name)
              ELSE ev'.res = "raised" /\ ev'.path = NULL /\ ev'.err.cls = "RuntimeError"
           /\ gv_load_path' = gv_load_path ]_vars

\* ./x is not found although /a is in $: and holds x.rb
C8_Witness ==
  /\ ev.at = "resolve" /\ ev.name = n_dot_x
  /\ gv_load_path = AryVal(<<d_a>>)
  /\ f_a_x_rb \in fs /\ f_w_x_rb \notin fs
  /\ ev.res = "raised" /\ ev.err.cls = "ScriptError"

\* ----------------------------------------------------------------- C9
\* the loader the extension of the file name calls for
LoaderFor(path) ==
  CASE ExtensionOf(path) \in { <<>>, <<DOT, "rb">> } -> "rb"
    [] ExtensionOf(path) = <<DOT, "mrb">> -> "mrb"
    [] ExtensionOf(path) \in { <<DOT, "so">>, <<DOT, "dll">>, <<DOT, "dylib">> } -> "so"
    [] OTHER -> "none"

\* C9: a resolved path that is not skipped by require goes to the loader its
\* file name's extension calls for; any other extension raises the
\* invalid-extension ScriptError and runs nothing.
C9_RoutingByFileNameExtension ==
  (ev.at = "call" /\ ev.path # NULL /\ ev.res # "false")
    => /\ ev.loader = LoaderFor(ev.path)
       /\ LoaderFor(ev.path) = "none"
            => (ev.res = "raised" /\ ev.ran = "none" /\ ev.err.cls = "ScriptError"
                /\ Contains(ev.err.msg, ev.path))

\* ---------------------------------------------------------------- C10
\* the stem of a library's symbols: the file name without its extension,
\* every '-' turned into '_'
StemOf(path) ==
  LET b == LastComponent(path)
      n == SubSeq(b, 1, Len(b) - Len(ExtensionOf(path)))
  IN [i \in 1..Len(n) |-> IF n[i] = "-" THEN "_" ELSE n[i]]
InitSymbol(path) == <<"mrb_">> \o StemOf(path) \o <<"_gem_init">>
IrepSymbol(path) == <<"gem_mrblib_irep_">> \o StemOf(path)

\* path is a library that opens and exports neither of its two symbols
ExportsNeither(path) ==
  /\ LoaderFor(path) = "so"
  /\ path \in fs \cap DOMAIN LibSyms
  /\ InitSymbol(path) \notin LibSyms[path]
  /\ IrepSymbol(path) \notin LibSyms[path]

\* C10: loading a library that exports neither symbol raises a ScriptError
\* whose message holds both symbol names and the path, starts neither an init
\* function nor bytecode, and the path never gets into the loaded list.
C10_NeitherSymbolFails ==
  /\ (ev.at = "call" /\ ev.path # NULL /\ ev.res # "false" /\ ExportsNeither(ev.path))
       => /\ ev.res = "raised" /\ ev.err.cls = "ScriptError" /\ mrb_exc = ev.err /\ jmp
          /\ Contains(ev.err.msg, InitSymbol(ev.path))
          /\ Contains(ev.err.msg, IrepSymbol(ev.path))
          /\ Contains(ev.err.msg, ev.path)
          /\ ev.ran = "none"
          /\ \A i \in 1..Len(stack) : stack[i].path # ev.path
  /\ \A p \in Range(gv_loaded.ary) : ~ExportsNeither(p)

\* a require of "o" found /a/o.so, which exports only a finalizer, and raised
C10_Witness ==
  /\ RequireCalled(ev) /\ ev.path = f_a_o_so /\ ev.res = "raised"
  /\ ExportsNeither(f_a_o_so)
  /\ f_a_o_so \in Range(gv_loading.ary)

\* ---------------------------------------------------------------- C11
\* path is a library that opens
Opens(path) == LoaderFor(path) = "so" /\ path \in fs \cap DOMAIN LibSyms

\* C11: in a load of a library that opens, an init function that resolves is
\* started by the call itself, before anything is decoded, and never a second
\* time; the embedded bytecode is decoded only when the init function has
\* given control back, or at once when there is no init function; a library
\* with the init function alone runs nothing after it, one with the bytecode
\* alone never runs an init function.
C11_InitOnceBeforeBytecode ==
  [][ /\ (ev'.at = "call" /\ ev'.loader = "so" /\ Opens(ev'.path))
          => IF InitSymbol(ev'.path) \in LibSyms[ev'.path]
             THEN /\ ev'.ran = "init" /\ ev'.src = NoIrep
                  /\ stack' = Append(stack, Frame(ev'.op, ev'.path, "so_init"))
             ELSE /\ ev'.ran # "init"
                  /\ \A i \in 1..Len(stack') : stack'[i].code = "so_init" => i <= Len(stack)
      /\ (ev'.at = "resume" /\ stack # <<>> /\ Top.code = "so_init")
          => /\ ev'.ran # "init"
             /\ Len(stack') <= Len(stack)
             /\ (IrepSymbol(Top.path) \notin LibSyms[Top.path])
                   => (ev'.ran = "none" /\ ev'.src = NoIrep /\ stack' = Pop)
             /\ (IrepSymbol(Top.path) \in LibSyms[Top.path])
                   => (ev'.loader = "so" /\ ev'.path = Top.path
                       /\ (ev'.ran = "bytecode" <=> stack' = Append(Pop, Frame(Top.op, Top.path, "so_irep"))))
      /\ (ev'.at = "resume" /\ stack # <<>> /\ Top.code = "so_irep")
          => (ev'.ran = "none" /\ stack' = Pop)
      /\ (ev'.ran = "init") => (ev'.at = "call" /\ ev'.loader = "so")
    ]_vars

\* the init function of /a/x.so has given control back and the embedded
\* bytecode of the library is running
C11_Witness ==
  /\ ev.at = "resume" /\ ev.path = f_a_x_so /\ ev.ran = "bytecode"
  /\ stack # <<>> /\ Top = Frame(ev.op, f_a_x_so, "so_irep")

\* ---------------------------------------------------------------- C12
\* the paths of the loaded list that are libraries, in the order of the list
NativeLoaded == SelectSeq(gv_loaded.ary, LAMBDA p : LoaderFor(p) = "so")

\* the finalizer symbol of a library
FinalSymbol(path) == <<"mrb_">> \o StemOf(path) \o <<"_gem_final">>

\* C12: when the interpreter has been closed and every library of the loaded
\* list exports its finalizer, the finalizer of every .so, .dll and .dylib path
\* of the list has been called once, in the order of the list, and no other
\* path got a call.
C12_FinalizersInLoadOrder ==
  (/\ phase = "down"
   /\ \A p \in Range(NativeLoaded) : p \in DOMAIN LibSyms /\ FinalSymbol(p) \in LibSyms[p])
    => (ev.at = "final" /\ ev.res = "done" /\ ev.fin = NativeLoaded)

\* ---------------------------------------------------------------- C13
\* C13: find_file called with an empty name, or while $: holds no array,
\* raises a configuration error, an exception that is not the not-found
\* ScriptError, and returns no path.
C13_EmptyNameOrBadPathIsConfigError ==
  (ev.at = "resolve" /\ (ev.name = <<>> \/ gv_load_path.type # "Array"))
    => /\ ev.res = "raised" /\ ev.path = NULL
       /\ ev.err.cls # "none" /\ ev.err.cls # "ScriptError"

\* ---------------------------------------------------------------- C14
\* C14: mrb_mruby_require_gem_init requires the names of MRUBY_REQUIRE one
\* after the other in the order of the list, and it neither requires a further
\* name nor returns normally once the load of an earlier name has failed with
\* an exception.
C14_FirstFailureAbortsStartup ==
  [][ /\ (phase = "init" /\ stack = <<>> /\ ev'.at = "call")
          => /\ env # <<>> /\ ev'.op = "require"
             /\ ev'.name = Head(env) /\ env' = Tail(env)
             /\ mrb_exc = NoExc
      /\ (phase = "init" /\ phase' = "run") => (env = <<>> /\ mrb_exc = NoExc)
    ]_vars

\* ---------------------------------------------------------------- C15
\* a require of path p is in progress on the stack stk
RequireInProgress(p, stk) == \E i \in 1..Len(stk) : stk[i].op = "require" /\ stk[i].path = p

\* a require of p has been left by an exception: p is in the loading list,
\* not in the loaded list, and no require of p is in progress
FailedIn(p, loading, loaded, stk) ==
  /\ p \in Range(loading.ary) /\ p \notin Range(loaded.ary)
  /\ ~RequireInProgress(p, stk)
FailedMidLoad(p) == FailedIn(p, gv_loading, gv_loaded, stack)

\* C15: a require that is left by an exception of its loader leaves the path
\* in the loading list and out of the loaded list; the loading list never
\* loses an entry; and every later require that resolves to such a path
\* returns false, hands it to no loader and raises nothing.
C15_FailedPathStaysBlocked ==
  [][ /\ (ev'.op = "require" /\ ev'.res = "raised" /\ ev'.path # NULL)
          => /\ ev'.path \in Range(gv_loading'.ary)
             /\ ev'.path \notin Range(gv_loaded'.ary)
             /\ FailedIn(ev'.path, gv_loading', gv_loaded', stack')
      /\ SubSeq(gv_loading'.ary, 1, Len(gv_loading.ary)) = gv_loading.ary
      /\ (RequireCalled(ev') /\ FailedMidLoad(ev'.path))
          => /\ ev'.res = "false" /\ ev'.err = NoExc
             /\ ~Dispatched(ev') /\ ev'.ran = "none"
             /\ stack' = stack /\ mrb_exc' = mrb_exc
             /\ FailedIn(ev'.path, gv_loading', gv_loaded', stack')
    ]_vars

\* /a/o.so failed to attach earlier; a new require of "o" returned false
C15_Witness ==
  /\ RequireCalled(ev) /\ ev.path = f_a_o_so /\ ev.res = "false"
  /\ FailedMidLoad(f_a_o_so) /\ mrb_exc = NoExc

\* ---------------------------------------------------------------- C16
\* C16: while a require of p is in progress, a require from the code of p, or
\* from code that p's code has got loaded, that resolves to p returns false
\* and raises nothing, hands p to no loader and leaves the loads in progress
\* and both lists as they are; and when a require in progress comes to its
\* end, its path is appended to the loaded list, which did not hold it before.
C16_NestedRequireOfLoadingIsFalse ==
  [][ /\ (RequireCalled(ev') /\ RequireInProgress(ev'.path, stack))
          => /\ ev'.res = "false" /\ ev'.err = NoExc
             /\ ~Dispatched(ev') /\ ev'.ran = "none"
             /\ stack' = stack /\ mrb_exc' = mrb_exc
             /\ gv_loaded' = gv_loaded /\ gv_loading' = gv_loading
      /\ (ev'.at = "resume" /\ ev'.op = "require" /\ ev'.res = "true")
          => /\ ev'.path = Top.path
             /\ ev'.path \notin Range(gv_loaded.ary)
             /\ gv_loaded'.ary = Append(gv_loaded.ary, ev'.path)
             /\ ~RequireInProgress(ev'.path, stack')
    ]_vars

\* the code of a file that /w/x.rb required has required "x" again, got false,
\* and both loads are still in progress
C16_Witness ==
  /\ RequireCalled(ev) /\ ev.res = "false" /\ ev.path = f_w_x_rb
  /\ Len(stack) = 2
  /\ stack[1] = Frame("require", f_w_x_rb, "rb")
  /\ stack[2].op = "require" /\ stack[2].path # f_w_x_rb
  /\ f_w_x_rb \notin Range(gv_loaded.ary)

\* ---------------------------------------------------------------- C17
\* C17: no step of a load (its call, the return of its loader, an exception
\* thrown through it) changes the loaded list or the loading list, and a load
\* is dispatched whatever the lists hold; hence a require that resolves to a
\* path of neither list is never answered false, whatever loads came before.
C17_LoadLeavesTrackerAlone ==
  [][ /\ (ev'.op = "load") => (gv_loaded' = gv_loaded /\ gv_loading' = gv_loading)
      /\ (LoadCalled(ev') /\ HasLoader(ev'.path)) => ev'.res # "false"
      /\ (RequireCalled(ev') /\ ev'.path \notin Range(gv_loaded.ary)
                             /\ ev'.path \notin Range(gv_loading.ary))
          => (ev'.res # "false" /\ ev'.loader = load_file(ev'.path)
              /\ ev'.path \in Range(gv_loading'.ary))
    ]_vars

\* a load of /a/x.rb has run to its end and both lists are as the
\* initialization left them
C17_Witness ==
  /\ ev.at = "resume" /\ ev.op = "load" /\ ev.res = "true" /\ ev.path = f_a_x_rb
  /\ stack = <<>>
  /\ gv_loaded = AryVal(<<>>) /\ gv_loading = NilVal

\* ---------------------------------------------------------------- C18
\* resolution of name fails in the current state: $: holds no array, or no
\* candidate of the name opens
Unresolvable(name) ==
  \/ gv_load_path.type # "Array"
  \/ IF IsAbsolute(name) THEN realpath(fs, name) = NULL
      ELSE Hits(fs, IF IsDotName(name) THEN << <<DOT>> >> ELSE gv_load_path.ary, name) = {}

\* a call of require or load with a String argument
CalledWithString(e) ==
  e.at = "call" /\ e.op \in {"require", "load"} /\ e.err.cls # "TypeError"

\* C18: a require or load whose name does not resolve raises the ScriptError
\* or RuntimeError of the resolver to its caller, hands nothing to a loader,
\* starts no code and leaves $:, the loaded list, the loading list and the
\* loads in progress as they are; a require whose name resolves, be it after
\* earlier failures and after the file was created, to a path of neither list
\* is handed to its loader.
C18_FailedResolutionChangesNothing ==
  [][ /\ (CalledWithString(ev') /\ Unresolvable(ev'.name))
          => /\ ev'.res = "raised" /\ ev'.path = NULL
             /\ ev'.err.cls \in {"ScriptError", "RuntimeError"}
             /\ jmp' /\ mrb_exc' = ev'.err
             /\ ~Dispatched(ev') /\ ev'.ran = "none"
             /\ stack' = stack
             /\ gv_load_path' = gv_load_path
             /\ gv_loaded' = gv_loaded /\ gv_loading' = gv_loading
      /\ (CalledWithString(ev') /\ ev'.op = "require" /\ ~Unresolvable(ev'.name))
          => /\ ev'.path # NULL
             /\ (ev'.path \notin Range(gv_loaded.ary) /\ ev'.path \notin Range(gv_loading.ary))
                   => (Dispatched(ev') /\ ev'.res # "false")
    ]_vars

\* require "y" raised the not-found error while /a/y.rb does not exist yet;
\* both lists are untouched
C18_Witness ==
  /\ ev.at = "call" /\ ev.op = "require" /\ ev.name = n_y
  /\ ev.res = "raised" /\ ev.err = not_found(n_y) /\ jmp
  /\ f_a_y_rb \in later
  /\ gv_loaded = AryVal(<<>>) /\ gv_loading = NilVal

\* ---------------------------------------------------------------- C19
\* C19: whenever a decoded image is run, the image run is the rewrite of the
\* image decoded: an image that ends in the stop opcode has that opcode
\* replaced by load-nil, return, is one instruction longer, lives in a buffer
\* the irep owns, no buffer of somebody else having been written or
\* reallocated, and has the no-free flag cleared and every other flag kept;
\* an image that does not end in the stop opcode is unchanged.
C19_RewriteNeverTouchesExternBuffer ==
  (ev.ran = "bytecode")
    => IF ev.src.iseq[Len(ev.src.iseq)] = OP_STOP
       THEN /\ Len(ev.irep.iseq) = Len(ev.src.iseq) + 1
            /\ SubSeq(ev.irep.iseq, 1, Len(ev.src.iseq) - 1)
                 = SubSeq(ev.src.iseq, 1, Len(ev.src.iseq) - 1)
            /\ SubSeq(ev.irep.iseq, Len(ev.src.iseq), Len(ev.src.iseq) + 1)
                 = <<"OP_LOADNIL", "OP_RETURN">>
            /\ ev.irep.buf = "heap"
            /\ ev.irep.flags = ev.src.flags - (ev.src.flags % 2)
       ELSE ev.irep = ev.src

\* ---------------------------------------------------------------- C20
\* C20: when loaded code calls require only: a require hands a path to a
\* loader only if the loading list does not hold it, and puts it there for
\* good, so no path is dispatched twice; the loads in progress are loads of
\* different paths, so their nesting is bounded by the number of files; and
\* every load in progress comes to its end: the top-level require returns.
C20_RequireTerminatesDispatchOnce ==
  /\ [][ /\ (RequireCalled(ev') /\ Dispatched(ev'))
              => /\ ev'.path \notin Range(gv_loading.ary)
                 /\ ev'.path \in Range(gv_loading'.ary)
          /\ SubSeq(gv_loading'.ary, 1, Len(gv_loading.ary)) = gv_loading.ary
          /\ \A i, j \in 1..Len(stack') : i # j => stack'[i].path # stack'[j].path
        ]_vars
  /\ (stack # <<>>) ~> (stack = <<>>)

\* require "x" has returned to the host after /a/x.rb required "y" and the
\* code of /a/y.rb ran inside it: y was committed first
C20_Witness ==
  /\ ev.at = "resume" /\ ev.op = "require" /\ ev.res = "true" /\ ev.path = f_a_x_rb
  /\ stack = <<>>
  /\ gv_loading.ary = <<f_a_x_rb, f_a_y_rb>>
  /\ gv_loaded.ary = <<f_a_y_rb, f_a_x_rb>>

\* ---------------------------------------------------------------- C21
\* no entry of the sequence s occurs in it twice
NoDuplicates(s) == \A i, j \in 1..Len(s) : i # j => s[i] # s[j]

\* C21: in every state that calls of require and load, nested in any way,
\* can reach, no path is twice in the loaded list and none is twice in the
\* loading list.
C21_ListsHoldNoPathTwice ==
  /\ NoDuplicates(gv_loaded.ary)
  /\ NoDuplicates(gv_loading.ary)

\* both lists hold two paths, a load is in progress, and the code it runs has
\* required a path of the loaded list again and got false
C21_Witness ==
  /\ Len(gv_loaded.ary) = 2 /\ Len(gv_loading.ary) = 2
  /\ stack # <<>> /\ Top.op = "load"
  /\ RequireCalled(ev) /\ ev.res = "false"
  /\ ev.path \in Range(gv_loaded.ary)

====
